---- MODULE Spec2Model ----
(***************************************************************************)
(* Model of educause_meetings_map.py: the static meeting and coordinate    *)
(* tables, the join get_coordinates, the overwrite prompt                  *)
(* confirm_overwrite, the inline rendering of main and the stand-alone     *)
(* renderer plot_meetings.                                                 *)
(*                                                                         *)
(* Conventions.                                                            *)
(*  - A latitude or longitude is an integer number of 1/10000 degree       *)
(*    (33.7701 is 337701), so the label offset 0.5 is 5000.                *)
(*  - A Python string that the program only compares is a TLA+ string;     *)
(*    a string the program transforms (the response to the prompt, which   *)
(*    is lower-cased) is a sequence of one-character strings.              *)
(*  - An f-string is the tuple of its pieces.                              *)
(*  - lats, lons, years, locations are the four list objects that          *)
(*    get_coordinates builds and returns; main binds its own names to the  *)
(*    same objects, so one variable stands for both.                       *)
(*  - figures is matplotlib's list of figures; plt.figure opens a new      *)
(*    one and every later drawing call goes to the last one.               *)
(***************************************************************************)
EXTENDS Integers, Sequences, FiniteSets, TLC

VARIABLES
    meetings,      \* module global meetings (the list get_coordinates scans)
    city_coords,   \* module global city_coords
    argv,          \* command line: [output, format]
    fs,            \* file system: path -> content
    stdin_log,     \* the lines input() has returned, as typed
    stdout,        \* everything printed, prompts included
    pc,            \* position in the running code
    driver,        \* what is being run: "main", "twice" or "compare"
    output_file,   \* main's output_file
    response,      \* confirm_overwrite's response (after .lower())
    confirmed,     \* value returned by confirm_overwrite
    lats, lons, years, locations,   \* the four output lists
    k,             \* number of records the for loop of get_coordinates consumed
    i,             \* index of the rendering loop
    figures,       \* sequence of figures, each the sequence of its drawing calls
    exit_status,   \* process exit status, "running" until the process ends
    call_log,      \* <<caller, callee>> for every function call made
    results,       \* what each get_coordinates call was given and returned
    mark           \* stdout length and the two tables when the current call began

vars == <<meetings, city_coords, argv, fs, stdin_log, stdout, pc, driver,
          output_file, response, confirmed, lats, lons, years, locations,
          k, i, figures, exit_status, call_log, results, mark>>

----------------------------------------------------------------------------
(* Bounds *)

MaxLen == 3          \* longest meeting list drawn as an input
MaxResp == 3         \* longest response typed at the prompt
MaxExisting == 1     \* most files present before the run

----------------------------------------------------------------------------
(* Static tables *)

Meetings ==
    << <<1999, "Long Beach, California">>,
       <<2000, "Nashville, Tennessee">>,
       <<2001, "Indianapolis, Indiana">>,
       <<2002, "Atlanta, Georgia">>,
       <<2003, "Anaheim, California">>,
       <<2004, "Denver, Colorado">>,
       <<2005, "Orlando, Florida">>,
       <<2006, "Dallas, Texas">>,
       <<2007, "Seattle, Washington">>,
       <<2008, "Orlando, Florida">>,
       <<2009, "Denver, Colorado">>,
       <<2010, "Anaheim, California">>,
       <<2011, "Philadelphia, Pennsylvania">>,
       <<2012, "Denver, Colorado">>,
       <<2013, "Anaheim, California">>,
       <<2014, "Orlando, Florida">>,
       <<2015, "Indianapolis, Indiana">>,
       <<2016, "Anaheim, California">>,
       <<2017, "Philadelphia, Pennsylvania">>,
       <<2018, "Denver, Colorado">>,
       <<2019, "Chicago, Illinois">>,
       <<2021, "Philadelphia, Pennsylvania">>,
       <<2022, "Denver, Colorado">>,
       <<2023, "Chicago, Illinois">>,
       <<2024, "San Antonio, Texas">> >>

CityCoords ==
    ("Long Beach, California" :> <<337701, -1181937>>) @@
    ("Nashville, Tennessee" :> <<361627, -867816>>) @@
    ("Indianapolis, Indiana" :> <<397684, -861581>>) @@
    ("Atlanta, Georgia" :> <<337490, -843880>>) @@
    ("Anaheim, California" :> <<338366, -1179143>>) @@
    ("Denver, Colorado" :> <<397392, -1049903>>) @@
    ("Orlando, Florida" :> <<285383, -813792>>) @@
    ("Dallas, Texas" :> <<327767, -967970>>) @@
    ("Seattle, Washington" :> <<476062, -1223321>>) @@
    ("Philadelphia, Pennsylvania" :> <<399526, -751652>>) @@
    ("Chicago, Illinois" :> <<418781, -876298>>) @@
    ("San Antonio, Texas" :> <<294241, -984936>>)

Virtual == "Virtual due to COVID-19"

----------------------------------------------------------------------------
(* Inputs *)

\* --output values tried: the default and one other name
Outputs == {"educause_meetings_map", "map"}

\* choices=['pdf', 'png', 'jpg']
Formats == {"pdf", "png", "jpg"}

DefaultArgs == [output |-> "educause_meetings_map", format |-> "pdf"]

\* f'{args.output}.{args.format}'
OutputFile(a) == <<a.output, ".", a.format>>

Paths == {OutputFile([output |-> o, format |-> f]) : o \in Outputs, f \in Formats}

Absent == <<"absent">>
Old == <<"old">>

\* file systems in which at most MaxExisting of the paths hold an older file
FileSystems ==
    {[p \in Paths |-> IF p \in E THEN Old ELSE Absent] :
        E \in {X \in SUBSET Paths : Cardinality(X) <= MaxExisting}}

Exists(p) == fs[p] # Absent

\* characters a response is made of
Chars == {"y", "Y", "n", "e", "s", " "}

SeqsUpTo(S, n) == UNION {[1..m -> S] : m \in 0..n}

Responses == SeqsUpTo(Chars, MaxResp)

\* records of the meeting lists drawn as inputs: two cities of the table,
\* the virtual marker and a city the table does not have
InputYears == {1999, 2025}
InputCities == {"Long Beach, California", "Denver, Colorado", Virtual, "Nowhere, Nowhere"}
InputRecords == {<<y, c>> : y \in InputYears, c \in InputCities}
MeetingLists == SeqsUpTo(InputRecords, MaxLen)

----------------------------------------------------------------------------
(* Python helpers *)

\* str.lower on one character
LowerChar(c) ==
    CASE c = "Y" -> "y"
      [] c = "N" -> "n"
      [] c = "E" -> "e"
      [] c = "S" -> "s"
      [] OTHER -> c

\* str.lower
Lower(s) == [j \in 1..Len(s) |-> LowerChar(s[j])]

\* dict.get(key): the value, or None, modelled as the empty tuple
None == <<>>
Get(d, key) == IF key \in DOMAIN d THEN d[key] ELSE None

\* truth value of a tuple or None
Truthy(v) == Len(v) > 0

Last(s) == s[Len(s)]

\* a drawing call on the current (last) figure
Draw(figs, op) == [figs EXCEPT ![Len(figs)] = Append(@, op)]
DrawAll(figs, ops) == [figs EXCEPT ![Len(figs)] = @ \o ops]

----------------------------------------------------------------------------
(* Initial states *)

InitWith(drv, m, a, f) ==
    /\ driver = drv
    /\ meetings = m
    /\ city_coords = CityCoords
    /\ argv = a
    /\ fs = f
    /\ stdin_log = <<>>
    /\ stdout = <<>>
    /\ pc = IF drv = "twice" THEN "get_coordinates" ELSE "parse_arguments"
    /\ output_file = None
    /\ response = None
    /\ confirmed = FALSE
    /\ lats = <<>> /\ lons = <<>> /\ years = <<>> /\ locations = <<>>
    /\ k = 0
    /\ i = 0
    /\ figures = <<>>
    /\ exit_status = "running"
    /\ call_log = <<>>
    /\ results = <<>>
    /\ mark = [out |-> 0, meetings |-> m, city_coords |-> CityCoords]

\* the script as shipped, run with any command line on any of the file systems
Init ==
    \E o \in Outputs, f \in Formats, files \in FileSystems :
        InitWith("main", Meetings, [output |-> o, format |-> f], files)

\* get_coordinates called twice in succession on a drawn meeting list
InitJoin ==
    \E m \in MeetingLists :
        InitWith("twice", m, DefaultArgs, [p \in Paths |-> Absent])

\* main run over a drawn meeting table in an empty directory, then
\* plot_meetings called on the four sequences main rendered
InitRender ==
    \E m \in MeetingLists :
        InitWith("compare", m, DefaultArgs, [p \in Paths |-> Absent])

----------------------------------------------------------------------------
(* parse_arguments and confirm_overwrite *)

\* args = parse_arguments(); output_file = f'{args.output}.{args.format}'
ParseArguments ==
    /\ pc = "parse_arguments"
    /\ output_file' = OutputFile(argv)
    /\ call_log' = Append(call_log, <<"main", "parse_arguments">>)
    /\ pc' = "confirm_overwrite"
    /\ UNCHANGED <<meetings, city_coords, argv, fs, stdin_log, stdout, driver,
                   response, confirmed, lats, lons, years, locations, k, i,
                   figures, exit_status, results, mark>>

\* confirm_overwrite accepting any response that starts with "y"
ConfirmOverwriteStartsWith ==
    /\ pc = "confirm_overwrite"
    /\ call_log' = Append(call_log, <<"main", "confirm_overwrite">>)
    /\ IF Exists(output_file)
         THEN \E typed \in Responses :
                /\ stdout' = Append(stdout, <<"File \"", output_file, "\" exists. Overwrite? (y/n): ">>)
                /\ stdin_log' = Append(stdin_log, typed)
                /\ response' = Lower(typed)
                /\ confirmed' = (Len(response') > 0 /\ response'[1] = "y")
         ELSE /\ confirmed' = TRUE
              /\ UNCHANGED <<stdout, stdin_log, response>>
    /\ pc' = "check_confirm"
    /\ UNCHANGED <<meetings, city_coords, argv, fs, driver, output_file,
                   lats, lons, years, locations, k, i, figures, exit_status,
                   results, mark>>

\* confirm_overwrite(output_file)
ConfirmOverwrite ==
    /\ pc = "confirm_overwrite"
    /\ call_log' = Append(call_log, <<"main", "confirm_overwrite">>)
    /\ IF Exists(output_file)
         THEN \E typed \in Responses :
                /\ stdout' = Append(stdout, <<"File \"", output_file, "\" exists. Overwrite? (y/n): ">>)
                /\ stdin_log' = Append(stdin_log, typed)
                /\ response' = Lower(typed)
                /\ confirmed' = (response' = <<"y">>)
         ELSE /\ confirmed' = TRUE
              /\ UNCHANGED <<stdout, stdin_log, response>>
    /\ pc' = "check_confirm"
    /\ UNCHANGED <<meetings, city_coords, argv, fs, driver, output_file,
                   lats, lons, years, locations, k, i, figures, exit_status,
                   results, mark>>

\* main printing the cancellation message without leaving
CheckConfirmNoExit ==
    /\ pc = "check_confirm"
    /\ IF ~confirmed
         THEN stdout' = Append(stdout, <<"Operation cancelled by the user.">>)
         ELSE UNCHANGED stdout
    /\ pc' = "get_coordinates"
    /\ UNCHANGED <<meetings, city_coords, argv, fs, stdin_log, driver,
                   output_file, response, confirmed, lats, lons, years,
                   locations, k, i, figures, exit_status, call_log, results, mark>>

\* if not confirm_overwrite(output_file): print(...); sys.exit(0)
CheckConfirm ==
    /\ pc = "check_confirm"
    /\ IF ~confirmed
         THEN /\ stdout' = Append(stdout, <<"Operation cancelled by the user.">>)
              /\ exit_status' = 0
              /\ pc' = "exited"
         ELSE /\ pc' = "get_coordinates"
              /\ UNCHANGED <<stdout, exit_status>>
    /\ UNCHANGED <<meetings, city_coords, argv, fs, stdin_log, driver,
                   output_file, response, confirmed, lats, lons, years,
                   locations, k, i, figures, call_log, results, mark>>

----------------------------------------------------------------------------
(* get_coordinates *)

Caller == IF driver = "twice" THEN "driver" ELSE "main"

\* get_coordinates appending to lists that outlive the call
GetCoordinatesEnterKeepsLists ==
    /\ pc = "get_coordinates"
    /\ k' = 0
    /\ call_log' = Append(call_log, <<Caller, "get_coordinates">>)
    /\ mark' = [out |-> Len(stdout), meetings |-> meetings, city_coords |-> city_coords]
    /\ pc' = "join_loop"
    /\ UNCHANGED <<meetings, city_coords, argv, fs, stdin_log, stdout, driver,
                   output_file, response, confirmed, i, figures, exit_status,
                   results, lats, lons, years, locations>>

\* entry: the four lists are created empty
GetCoordinatesEnter ==
    /\ pc = "get_coordinates"
    /\ lats' = <<>> /\ lons' = <<>> /\ years' = <<>> /\ locations' = <<>>
    /\ k' = 0
    /\ call_log' = Append(call_log, <<Caller, "get_coordinates">>)
    /\ mark' = [out |-> Len(stdout), meetings |-> meetings, city_coords |-> city_coords]
    /\ pc' = "join_loop"
    /\ UNCHANGED <<meetings, city_coords, argv, fs, stdin_log, stdout, driver,
                   output_file, response, confirmed, i, figures, exit_status,
                   results>>

\* the loop body with one of three slips: "halt" leaves the loop at the first
\* city that is not found, "novirtual" lacks the test for the virtual
\* marker, "unaligned" appends the year outside the test on coords
JoinStepWith(slip) ==
    /\ pc = "join_loop"
    /\ k < Len(meetings)
    /\ LET year == meetings[k + 1][1]
           location == meetings[k + 1][2]
           coords == Get(city_coords, location)
       IN  /\ IF location = Virtual /\ slip # "novirtual"
                THEN UNCHANGED <<lats, lons, years, locations, stdout>>
                ELSE IF Truthy(coords)
                       THEN /\ lats' = Append(lats, coords[1])
                            /\ lons' = Append(lons, coords[2])
                            /\ years' = Append(years, year)
                            /\ locations' = Append(locations, location)
                            /\ UNCHANGED stdout
                       ELSE /\ stdout' = Append(stdout, <<"Coordinates for ", location, " not found.">>)
                            /\ years' = IF slip = "unaligned" THEN Append(years, year) ELSE years
                            /\ UNCHANGED <<lats, lons, locations>>
           /\ k' = IF slip = "halt" /\ location # Virtual /\ ~Truthy(coords)
                     THEN Len(meetings)
                     ELSE k + 1
    /\ UNCHANGED <<meetings, city_coords, argv, fs, stdin_log, pc, driver,
                   output_file, response, confirmed, i, figures, exit_status,
                   call_log, results, mark>>

JoinStepHalts == JoinStepWith("halt")
JoinStepNoVirtual == JoinStepWith("novirtual")
JoinStepUnaligned == JoinStepWith("unaligned")

\* one iteration of "for year, location in meetings"
JoinStep ==
    /\ pc = "join_loop"
    /\ k < Len(meetings)
    /\ LET year == meetings[k + 1][1]
           location == meetings[k + 1][2]
           coords == Get(city_coords, location)
       IN  IF location = Virtual
             THEN UNCHANGED <<lats, lons, years, locations, stdout>>
             ELSE IF Truthy(coords)
                    THEN /\ lats' = Append(lats, coords[1])
                         /\ lons' = Append(lons, coords[2])
                         /\ years' = Append(years, year)
                         /\ locations' = Append(locations, location)
                         /\ UNCHANGED stdout
                    ELSE /\ stdout' = Append(stdout, <<"Coordinates for ", location, " not found.">>)
                         /\ UNCHANGED <<lats, lons, years, locations>>
    /\ k' = k + 1
    /\ UNCHANGED <<meetings, city_coords, argv, fs, stdin_log, pc, driver,
                   output_file, response, confirmed, i, figures, exit_status,
                   call_log, results, mark>>

\* return lats, lons, years, locations
GetCoordinatesReturn ==
    /\ pc = "join_loop"
    /\ k >= Len(meetings)
    /\ results' = Append(results,
                    [ret |-> <<lats, lons, years, locations>>,
                     diags |-> SubSeq(stdout, mark.out + 1, Len(stdout)),
                     given |-> mark.meetings,
                     table |-> mark.city_coords,
                     meetings |-> meetings,
                     city_coords |-> city_coords])
    /\ pc' = IF driver = "twice"
               THEN (IF Len(results') < 2 THEN "get_coordinates" ELSE "done")
               ELSE "create_plot"
    /\ UNCHANGED <<meetings, city_coords, argv, fs, stdin_log, stdout, driver,
                   output_file, response, confirmed, lats, lons, years,
                   locations, k, i, figures, exit_status, call_log, mark>>

----------------------------------------------------------------------------
(* Rendering in main *)

Title == "Educause Annual Meeting Locations (1999-2024)"

\* main saving the figure as soon as it is created
CreatePlotSavesEarly ==
    /\ pc = "create_plot"
    /\ figures' = Append(figures,
                    << <<"figure", <<15, 10>>>>,
                       <<"axes", <<"LambertConformal">>>>,
                       <<"set_extent", <<-1250000, -665000, 200000, 500000, "Geodetic">>>> >>)
    /\ fs' = [fs EXCEPT ![output_file] = <<"image", argv.format, Last(figures')>>]
    /\ pc' = "add_features"
    /\ UNCHANGED <<meetings, city_coords, argv, stdin_log, stdout, driver,
                   output_file, response, confirmed, lats, lons, years,
                   locations, k, i, exit_status, call_log, results, mark>>

\* plt.figure(figsize=(15, 10)); plt.axes(projection=...); ax.set_extent(...)
CreatePlot ==
    /\ pc = "create_plot"
    /\ figures' = Append(figures,
                    << <<"figure", <<15, 10>>>>,
                       <<"axes", <<"LambertConformal">>>>,
                       <<"set_extent", <<-1250000, -665000, 200000, 500000, "Geodetic">>>> >>)
    /\ pc' = "add_features"
    /\ UNCHANGED <<meetings, city_coords, argv, fs, stdin_log, stdout, driver,
                   output_file, response, confirmed, lats, lons, years,
                   locations, k, i, exit_status, call_log, results, mark>>

\* main drawing the layers without the rivers
AddFeaturesNoRivers ==
    /\ pc = "add_features"
    /\ figures' = DrawAll(figures,
                    << <<"add_feature", <<"LAND">>>>,
                       <<"add_feature", <<"OCEAN">>>>,
                       <<"add_feature", <<"BORDERS", "linestyle", ":">>>>,
                       <<"add_feature", <<"LAKES", "alpha", "0.5">>>>,
                       <<"coastlines", <<"50m">>>> >>)
    /\ pc' = "plot_loop"
    /\ UNCHANGED <<meetings, city_coords, argv, fs, stdin_log, stdout, driver,
                   output_file, response, confirmed, lats, lons, years,
                   locations, k, i, exit_status, call_log, results, mark>>

\* the five ax.add_feature calls and ax.coastlines
AddFeatures ==
    /\ pc = "add_features"
    /\ figures' = DrawAll(figures,
                    << <<"add_feature", <<"LAND">>>>,
                       <<"add_feature", <<"OCEAN">>>>,
                       <<"add_feature", <<"BORDERS", "linestyle", ":">>>>,
                       <<"add_feature", <<"LAKES", "alpha", "0.5">>>>,
                       <<"add_feature", <<"RIVERS">>>>,
                       <<"coastlines", <<"50m">>>> >>)
    /\ pc' = "plot_loop"
    /\ UNCHANGED <<meetings, city_coords, argv, fs, stdin_log, stdout, driver,
                   output_file, response, confirmed, lats, lons, years,
                   locations, k, i, exit_status, call_log, results, mark>>

\* the loop body drawing its first arrow one index late ("if i > 1")
PlotPointLateArrow ==
    /\ pc = "plot_loop"
    /\ i < Len(lats)
    /\ LET j == i + 1
           marker == <<"plot", <<lons[j], lats[j], "ro", 5, "Geodetic">>>>
           label == <<"text", <<lons[j] + 5000, lats[j] + 5000,
                                <<years[j], ": ", locations[j]>>, "Geodetic">>>>
           arrow == <<"annotate", <<"", <<lons[j], lats[j]>>,
                                    <<lons[j - 1], lats[j - 1]>>, "->", "blue", "Geodetic">>>>
       IN  figures' = DrawAll(figures,
                        IF i > 1 THEN <<marker, label, arrow>> ELSE <<marker, label>>)
    /\ i' = i + 1
    /\ UNCHANGED <<meetings, city_coords, argv, fs, stdin_log, stdout, pc, driver,
                   output_file, response, confirmed, lats, lons, years,
                   locations, k, exit_status, call_log, results, mark>>

\* one iteration of "for i in range(len(lats))"; i counts the iterations done,
\* so the Python index i is position i + 1 here
PlotPoint ==
    /\ pc = "plot_loop"
    /\ i < Len(lats)
    /\ LET j == i + 1
           marker == <<"plot", <<lons[j], lats[j], "ro", 5, "Geodetic">>>>
           label == <<"text", <<lons[j] + 5000, lats[j] + 5000,
                                <<years[j], ": ", locations[j]>>, "Geodetic">>>>
           arrow == <<"annotate", <<"", <<lons[j], lats[j]>>,
                                    <<lons[j - 1], lats[j - 1]>>, "->", "blue", "Geodetic">>>>
       IN  figures' = DrawAll(figures,
                        IF i > 0 THEN <<marker, label, arrow>> ELSE <<marker, label>>)
    /\ i' = i + 1
    /\ UNCHANGED <<meetings, city_coords, argv, fs, stdin_log, stdout, pc, driver,
                   output_file, response, confirmed, lats, lons, years,
                   locations, k, exit_status, call_log, results, mark>>

\* plt.title(...), reached when the loop is exhausted
SetTitle ==
    /\ pc = "plot_loop"
    /\ i >= Len(lats)
    /\ figures' = Draw(figures, <<"title", <<Title>>>>)
    /\ pc' = "savefig"
    /\ UNCHANGED <<meetings, city_coords, argv, fs, stdin_log, stdout, driver,
                   output_file, response, confirmed, lats, lons, years,
                   locations, k, i, exit_status, call_log, results, mark>>

\* plt.savefig(output_file, format=args.format)
SaveFig ==
    /\ pc = "savefig"
    /\ figures' = Draw(figures, <<"savefig", <<output_file, argv.format>>>>)
    /\ fs' = [fs EXCEPT ![output_file] = <<"image", argv.format, Last(figures)>>]
    /\ pc' = "print_saved"
    /\ UNCHANGED <<meetings, city_coords, argv, stdin_log, stdout, driver,
                   output_file, response, confirmed, lats, lons, years,
                   locations, k, i, exit_status, call_log, results, mark>>

\* print(f'Map saved to {output_file}'); main returns and the script ends
PrintSaved ==
    /\ pc = "print_saved"
    /\ stdout' = Append(stdout, <<"Map saved to ", output_file>>)
    /\ IF driver = "compare"
         THEN pc' = "plot_meetings" /\ UNCHANGED exit_status
         ELSE pc' = "exited" /\ exit_status' = 0
    /\ UNCHANGED <<meetings, city_coords, argv, fs, stdin_log, driver,
                   output_file, response, confirmed, lats, lons, years,
                   locations, k, i, figures, call_log, results, mark>>

----------------------------------------------------------------------------
(* plot_meetings(lats, lons, years, locations) *)

\* entry: plt.figure, plt.axes, ax.set_extent
PlotMeetingsEnter ==
    /\ pc = "plot_meetings"
    /\ call_log' = Append(call_log, <<"driver", "plot_meetings">>)
    /\ figures' = Append(figures,
                    << <<"figure", <<15, 10>>>>,
                       <<"axes", <<"LambertConformal">>>>,
                       <<"set_extent", <<-1250000, -665000, 200000, 500000, "Geodetic">>>> >>)
    /\ i' = 0
    /\ pc' = "pm_features"
    /\ UNCHANGED <<meetings, city_coords, argv, fs, stdin_log, stdout, driver,
                   output_file, response, confirmed, lats, lons, years,
                   locations, k, exit_status, results, mark>>

PlotMeetingsFeatures ==
    /\ pc = "pm_features"
    /\ figures' = DrawAll(figures,
                    << <<"add_feature", <<"LAND">>>>,
                       <<"add_feature", <<"OCEAN">>>>,
                       <<"add_feature", <<"BORDERS", "linestyle", ":">>>>,
                       <<"add_feature", <<"LAKES", "alpha", "0.5">>>>,
                       <<"add_feature", <<"RIVERS">>>>,
                       <<"coastlines", <<"50m">>>> >>)
    /\ pc' = "pm_loop"
    /\ UNCHANGED <<meetings, city_coords, argv, fs, stdin_log, stdout, driver,
                   output_file, response, confirmed, lats, lons, years,
                   locations, k, i, exit_status, call_log, results, mark>>

PlotMeetingsPoint ==
    /\ pc = "pm_loop"
    /\ i < Len(lats)
    /\ figures' =
         LET f1 == Draw(figures, <<"plot", <<lons[i + 1], lats[i + 1], "ro", 5, "Geodetic">>>>)
             f2 == Draw(f1, <<"text", <<lons[i + 1] + 5000, lats[i + 1] + 5000,
                                        <<years[i + 1], ": ", locations[i + 1]>>, "Geodetic">>>>)
         IN  IF i > 0
               THEN Draw(f2, <<"annotate", <<"", <<lons[i + 1], lats[i + 1]>>,
                                             <<lons[i], lats[i]>>, "->", "blue", "Geodetic">>>>)
               ELSE f2
    /\ i' = i + 1
    /\ UNCHANGED <<meetings, city_coords, argv, fs, stdin_log, stdout, pc, driver,
                   output_file, response, confirmed, lats, lons, years,
                   locations, k, exit_status, call_log, results, mark>>

PlotMeetingsTitle ==
    /\ pc = "pm_loop"
    /\ i >= Len(lats)
    /\ figures' = Draw(figures, <<"title", <<Title>>>>)
    /\ pc' = "pm_show"
    /\ UNCHANGED <<meetings, city_coords, argv, fs, stdin_log, stdout, driver,
                   output_file, response, confirmed, lats, lons, years,
                   locations, k, i, exit_status, call_log, results, mark>>

\* plt.show()
PlotMeetingsShow ==
    /\ pc = "pm_show"
    /\ figures' = Draw(figures, <<"show", <<>>>>)
    /\ pc' = "done"
    /\ UNCHANGED <<meetings, city_coords, argv, fs, stdin_log, stdout, driver,
                   output_file, response, confirmed, lats, lons, years,
                   locations, k, i, exit_status, call_log, results, mark>>

----------------------------------------------------------------------------
(* Specifications *)

GetCoordinates == GetCoordinatesEnter \/ JoinStep \/ GetCoordinatesReturn

Main ==
    \/ ParseArguments
    \/ ConfirmOverwrite
    \/ CheckConfirm
    \/ GetCoordinates
    \/ CreatePlot
    \/ AddFeatures
    \/ PlotPoint
    \/ SetTitle
    \/ SaveFig
    \/ PrintSaved

PlotMeetings ==
    \/ PlotMeetingsEnter
    \/ PlotMeetingsFeatures
    \/ PlotMeetingsPoint
    \/ PlotMeetingsTitle
    \/ PlotMeetingsShow

Next == Main
NextJoin == GetCoordinates
NextRender == Main \/ PlotMeetings

Spec == Init /\ [][Next]_vars
SpecJoin == InitJoin /\ [][NextJoin]_vars
SpecRender == InitRender /\ [][NextRender]_vars

----------------------------------------------------------------------------
(* What the join is expected to return, stated on the input alone *)

InTable(rec) == rec[2] \in DOMAIN CityCoords
NotInTable(rec) == rec[2] \notin DOMAIN CityCoords
NotInTableNorVirtual(rec) == rec[2] \notin DOMAIN CityCoords /\ rec[2] # Virtual

\* the PlotPoints <<lat, lon, year, city>> of the records found in the table
ExpectedPoints(m) ==
    LET found == SelectSeq(m, InTable)
    IN  [j \in 1..Len(found) |->
            <<CityCoords[found[j][2]][1], CityCoords[found[j][2]][2],
              found[j][1], found[j][2]>>]

SameLengths(ret) ==
    /\ Len(ret[1]) = Len(ret[2])
    /\ Len(ret[2]) = Len(ret[3])
    /\ Len(ret[3]) = Len(ret[4])

\* the PlotPoints a returned 4-tuple of lists stands for
PointsOf(ret) == [j \in 1..Len(ret[1]) |-> <<ret[1][j], ret[2][j], ret[3][j], ret[4][j]>>]

NotFoundMessage(rec) == <<"Coordinates for ", rec[2], " not found.">>

IsNotFound(line) == line[1] = "Coordinates for "

----------------------------------------------------------------------------
(* Claims about get_coordinates, checked under SpecJoin *)

\* C1: every call of get_coordinates returns one PlotPoint (lat, lon, year,
\* city from the table) for each record whose city is a key of the table, in
\* the order of the input, and nothing for the other records; a record that
\* is not found does not stop the scan.
C1_JoinReturnsTableRecords ==
    \A n \in 1..Len(results) :
        /\ SameLengths(results[n].ret)
        /\ PointsOf(results[n].ret) = ExpectedPoints(results[n].given)

C1_Witness ==
    /\ Len(results) >= 1
    /\ Len(results[1].ret[1]) >= 2
    /\ \E a, b, c \in 1..Len(results[1].given) :
          /\ a < b /\ b < c
          /\ InTable(results[1].given[a])
          /\ results[1].given[b][2] = "Nowhere, Nowhere"
          /\ results[1].given[c][2] = results[1].given[a][2]

\* C2 as stated: the diagnostics of a call are as many as the records whose
\* city is not a key of the table, the virtual marker included.
C2_DiagnosticPerAbsentCity ==
    \A n \in 1..Len(results) :
        Len(results[n].diags) = Len(SelectSeq(results[n].given, NotInTable))

\* C2 amended: a record whose city is not a key of the table produces no
\* PlotPoint; it produces exactly one diagnostic, in input order, unless its
\* city is the virtual marker, which produces none.
C2_DiagnosticPerAbsentCityButVirtual ==
    \A n \in 1..Len(results) :
        LET absent == SelectSeq(results[n].given, NotInTableNorVirtual)
        IN  /\ Len(results[n].diags) = Len(absent)
            /\ \A j \in 1..Len(absent) : results[n].diags[j] = NotFoundMessage(absent[j])
            /\ \A j \in 1..Len(results[n].ret[4]) :
                  results[n].ret[4][j] \in DOMAIN CityCoords
            /\ Len(results[n].ret[4]) = Len(SelectSeq(results[n].given, InTable))

C2_Witness ==
    /\ Len(results) >= 1
    /\ Len(results[1].diags) = 1
    /\ \E a, b \in 1..Len(results[1].given) :
          /\ results[1].given[a][2] = Virtual
          /\ results[1].given[b][2] = "Nowhere, Nowhere"

\* C3: the four lists have equal lengths and entry j of each comes from one
\* input record already scanned, after every iteration and in what is
\* returned, the empty result included.
C3_ListsAligned ==
    /\ SameLengths(<<lats, lons, years, locations>>)
    /\ \A j \in 1..Len(lats) :
          \E idx \in 1..k :
              /\ meetings[idx] = <<years[j], locations[j]>>
              /\ Get(city_coords, meetings[idx][2]) = <<lats[j], lons[j]>>
    /\ \A n \in 1..Len(results) :
          /\ SameLengths(results[n].ret)
          /\ (SelectSeq(results[n].given, InTable) = <<>>
                => results[n].ret = <<<<>>, <<>>, <<>>, <<>>>>)
    /\ (pc = "done" => Len(results) = 2)

C3_Witness ==
    /\ pc = "join_loop"
    /\ k = Len(meetings)
    /\ Len(lats) = 2
    /\ NotInTable(meetings[2])
    /\ years[1] # years[2]
    /\ locations[1] # locations[2]

\* C8: two calls in succession on the same meeting list and table return
\* the same four lists and print the same diagnostics, and leave the
\* meeting list and the table as they were.
C8_JoinIdempotent ==
    pc = "done" =>
        /\ Len(results) = 2
        /\ results[2].given = results[1].given
        /\ results[2].table = results[1].table
        /\ results[2].ret = results[1].ret
        /\ results[2].diags = results[1].diags
        /\ \A n \in 1..2 :
              /\ results[n].meetings = results[1].given
              /\ results[n].city_coords = results[1].table

C8_Witness ==
    /\ pc = "done"
    /\ Len(results[2].ret[1]) >= 1
    /\ Len(results[2].diags) >= 1

----------------------------------------------------------------------------
(* Reading a figure and the logs *)

\* the drawing calls of one kind, in the order they were made
OpsOf(fig, kind) == SelectSeq(fig, LAMBDA op : op[1] = kind)

Called(callee) == \E n \in 1..Len(call_log) : call_log[n][2] = callee

CancelMessage == <<"Operation cancelled by the user.">>
SavedMessage(path) == <<"Map saved to ", path>>

Written(p) == fs[p][1] = "image"

Max(a, b) == IF a >= b THEN a ELSE b

\* a sequence without its last element
Front(s) == SubSeq(s, 1, Len(s) - 1)

\* the figure holds every marker, label and arrow of the four lists, and the title
FullyDrawn(fig) ==
    /\ Len(OpsOf(fig, "plot")) = Len(lats)
    /\ Len(OpsOf(fig, "text")) = Len(lats)
    /\ Len(OpsOf(fig, "annotate")) = Max(0, Len(lats) - 1)
    /\ Len(OpsOf(fig, "title")) = 1

----------------------------------------------------------------------------
(* Claims about main as shipped, checked under Spec *)

\* C4: when the file exists and the user declines, main prints the
\* cancellation message and ends with status 0, having run no join, drawn
\* nothing and written nothing: the existing file is as it was.
C4_DeclineCancelsCleanly ==
    (pc = "exited" /\ ~confirmed) =>
        /\ Len(stdin_log) = 1
        /\ Last(stdout) = CancelMessage
        /\ exit_status = 0
        /\ ~Called("get_coordinates")
        /\ results = <<>>
        /\ lats = <<>> /\ lons = <<>> /\ years = <<>> /\ locations = <<>>
        /\ figures = <<>>
        /\ fs[output_file] = Old
        /\ \A p \in Paths : ~Written(p)

C4_Witness ==
    /\ pc = "exited"
    /\ ~confirmed
    /\ stdin_log = << <<"n">> >>
    /\ fs[output_file] = Old

\* C5: the overwrite check and its prompt come before any join or drawing;
\* the one write, to output_file, comes after the join and after every
\* marker, label and arrow; "Map saved to ..." is printed after the write.
C5_CheckThenRenderThenSave ==
    [][ /\ (pc \in {"parse_arguments", "confirm_overwrite", "check_confirm"}
              \/ stdin_log' # stdin_log)
            => (/\ ~Called("get_coordinates")
                /\ results = <<>>
                /\ figures = <<>>
                /\ fs' = fs)
        /\ (results' # results \/ figures' # figures \/ fs' # fs)
            => (confirmed /\ Called("confirm_overwrite"))
        /\ fs' # fs
            => (/\ Len(results) = 1
                /\ Len(figures) = 1
                /\ FullyDrawn(figures[1])
                /\ ~Written(output_file)
                /\ Written(output_file)'
                /\ \A p \in Paths \ {output_file} : fs'[p] = fs[p]
                /\ SavedMessage(output_file) \notin {stdout[n] : n \in 1..Len(stdout)})
        /\ (stdout' # stdout /\ Last(stdout') = SavedMessage(output_file))
            => Written(output_file)
      ]_vars

C5_Witness ==
    /\ pc = "exited"
    /\ confirmed
    /\ Len(stdin_log) = 1
    /\ Written(output_file)
    /\ Last(stdout) = SavedMessage(output_file)

\* C7: with the built-in tables (25 records, years strictly increasing over
\* 1999..2024 with only 2020 missing, 12 cities) a full run prints no "not
\* found" diagnostic, joins 25 PlotPoints of which the first is Long Beach
\* 1999, and draws 24 arrows.
C7_BuiltInRun ==
    /\ Len(meetings) = 25
    /\ \A a, b \in 1..Len(meetings) : a < b => meetings[a][1] < meetings[b][1]
    /\ {meetings[a][1] : a \in 1..Len(meetings)} = (1999..2024) \ {2020}
    /\ Cardinality(DOMAIN city_coords) = 12
    /\ \A n \in 1..Len(stdout) : ~IsNotFound(stdout[n])
    /\ \A n \in 1..Len(results) :
          /\ Len(PointsOf(results[n].ret)) = 25
          /\ SameLengths(results[n].ret)
          /\ PointsOf(results[n].ret)[1] = <<337701, -1181937, 1999, "Long Beach, California">>
    /\ (pc = "exited" /\ confirmed) => Len(OpsOf(figures[1], "annotate")) = 24

C7_Witness ==
    /\ pc = "exited"
    /\ confirmed
    /\ Len(lats) = 25
    /\ Len(OpsOf(figures[1], "plot")) = 25

\* C10: confirm_overwrite prompts exactly when the file exists; with no file
\* it returns True without reading; with a file it reads one response and
\* returns True exactly when the response is "y" or "Y".
C10_PromptIffExists ==
    pc = "check_confirm" =>
        IF Exists(output_file)
          THEN /\ Len(stdin_log) = 1
               /\ Len(stdout) = 1
               /\ confirmed <=> stdin_log[1] \in {<<"y">>, <<"Y">>}
          ELSE /\ stdin_log = <<>>
               /\ stdout = <<>>
               /\ confirmed

C10_Witness ==
    /\ pc = "check_confirm"
    /\ Exists(output_file)
    /\ stdin_log = << <<"y", "e", "s">> >>
    /\ ~confirmed

----------------------------------------------------------------------------
(* Claims about the rendering, checked under SpecRender *)

MainDrawn == Len(figures) >= 1 /\ Len(OpsOf(figures[1], "title")) = 1

\* C6: for n joined points main draws n markers and n labels, the label of
\* point j reading "<year>: <city>", and max(0, n-1) arrows, the arrow of
\* point j (after the first) going from point j-1 to point j; with n = 0
\* nothing is drawn and the figure is still produced, with n = 1 no arrow.
C6_MarkersLabelsArrows ==
    MainDrawn =>
        LET fig == figures[1]
            n == Len(lats)
            markers == OpsOf(fig, "plot")
            labels == OpsOf(fig, "text")
            arrows == OpsOf(fig, "annotate")
        IN  /\ Len(markers) = n
            /\ Len(labels) = n
            /\ Len(arrows) = Max(0, n - 1)
            /\ \A j \in 1..n :
                  /\ markers[j][2][1] = lons[j]
                  /\ markers[j][2][2] = lats[j]
                  /\ labels[j][2][3] = <<years[j], ": ", locations[j]>>
            /\ \A j \in 2..n :
                  /\ arrows[j - 1][2][3] = <<lons[j - 1], lats[j - 1]>>
                  /\ arrows[j - 1][2][2] = <<lons[j], lats[j]>>

C6_Witness ==
    /\ MainDrawn
    /\ Len(lats) >= 3
    /\ locations[1] # locations[2]
    /\ locations[1] = locations[3]

\* C9: main's figure and the figure plot_meetings draws from the same four
\* lists hold the same drawing calls in the same order up to the last one,
\* which is savefig in main and show in plot_meetings; main does not call
\* plot_meetings.
C9_InlineMatchesPlotMeetings ==
    /\ \A n \in 1..Len(call_log) : call_log[n] # <<"main", "plot_meetings">>
    /\ pc = "done" =>
          /\ Len(figures) = 2
          /\ Front(figures[1]) = Front(figures[2])
          /\ Last(figures[1]) = <<"savefig", <<output_file, argv.format>>>>
          /\ Last(figures[2]) = <<"show", <<>>>>

C9_Witness ==
    /\ pc = "done"
    /\ Len(lats) >= 2
    /\ Len(figures[2]) >= 14

====
